---- MODULE Spec2Model ----
(***************************************************************************)
(* ftreecmp: comparison of two directory hierarchies ("old" and "new").    *)
(*                                                                         *)
(* The model is the program run as a state machine: main() reads the two   *)
(* root directories and calls compare_directories; the three mutually      *)
(* recursive functions compare_directories, compare_files and              *)
(* report_recursively run on an explicit call stack, one action per        *)
(* straight-line segment of their bodies.  The leaf functions              *)
(* (fstate_stat, fstate_readlink, fstate_descend, dstate_read,             *)
(* report_changed_file, compare_regular_files, ignored_range_whiteout,     *)
(* elf_locate_build_id) are operators.  Every system call (opendir, lstat, *)
(* open, read, readlink) may fail; its outcome is an input of the action.  *)
(***************************************************************************)
EXTENDS Integers, Sequences, FiniteSets, TLC

VARIABLES
    fs,                 \* the two trees on disk: fs.old, fs.new
    opt_ignore_buildid, \* -i elf-buildid
    pc,                 \* "main", "running", "done", "crashed"
    exitval,            \* main's exit status
    stack,              \* call stack, innermost frame last
    retval,             \* return value of the function that returned last
    records,            \* change records handed to the reporter, in order
    stb,                \* entries whose stat buffer is cached (fs->stb)
    link_dest,          \* cached link targets (fs->link_dest)
    lstat_calls,        \* lstat(2) calls issued, per entry
    readlink_calls,     \* readlink(2) calls issued, per entry
    faults,             \* failed system calls so far
    io_failed           \* TRUE once any system call has failed

vars == <<fs, opt_ignore_buildid, pc, exitval, stack, retval, records, stb,
          link_dest, lstat_calls, readlink_calls, faults, io_failed>>

-----------------------------------------------------------------------------
(* Bounds of the model *)

\* at most this many filesystem objects in the two trees together
MaxNodes == 3
\* at most this many system calls fail in one run
MaxFaults == 2
\* longest regular file of the content family, in bytes
MaxFileLen == 11
\* bytes per read(2) of compare_regular_files (8192 in the program)
ChunkSize == 6

\* entry names; strcmp order is the order of the integers
Names == {1, 2}

-----------------------------------------------------------------------------
(* Program constants *)

FSTATE_CHANGED_CRIT == 1
FSTATE_CHANGED_MODE == 2
FSTATE_CHANGED_DATA == 4
FSTATE_CHANGED_ADDED == 16
FSTATE_CHANGED_REMOVED == 32

S_ISUID == 2048
S_ISGID == 1024
S_ISVTX == 512
ALLPERMS == 4095

\* sanity bound on the size of .gnu_debuglink
MaxSectionSize == 2048

\* a pointer is NULL or <<what it points to>>
NULL == <<>>
NoSec == <<>>

-----------------------------------------------------------------------------
(* Bit operations on naturals, and 32-bit unsigned arithmetic on two       *)
(* 16-bit limbs <<hi, lo>> (TLC's integers are 32-bit signed).             *)

RECURSIVE BitAnd(_, _)
BitAnd(a, b) ==
    IF a = 0 \/ b = 0 THEN 0
    ELSE (a % 2) * (b % 2) + 2 * BitAnd(a \div 2, b \div 2)

RECURSIVE BitOr(_, _)
BitOr(a, b) ==
    IF a = 0 THEN b
    ELSE IF b = 0 THEN a
    ELSE (IF a % 2 = 1 \/ b % 2 = 1 THEN 1 ELSE 0) + 2 * BitOr(a \div 2, b \div 2)

RECURSIVE BitXor(_, _)
BitXor(a, b) ==
    IF a = 0 THEN b
    ELSE IF b = 0 THEN a
    ELSE ((a + b) % 2) + 2 * BitXor(a \div 2, b \div 2)

U32(n) == <<n \div 65536, n % 65536>>
Add32(a, b) ==
    LET lo == a[2] + b[2]
    IN  <<(a[1] + b[1] + lo \div 65536) % 65536, lo % 65536>>
Sub32(a, b) ==
    LET lo == a[2] - b[2]
        borrow == IF lo < 0 THEN 1 ELSE 0
    IN  <<(a[1] - b[1] - borrow + 65536) % 65536, (lo + 65536) % 65536>>
Not32(a) == <<65535 - a[1], 65535 - a[2]>>
And32(a, b) == <<BitAnd(a[1], b[1]), BitAnd(a[2], b[2])>>
\* a 32-bit value against a natural below 2^16
Ge32(a, n) == a[1] > 0 \/ a[2] >= n

-----------------------------------------------------------------------------
(* The trees on disk.  A directory's contents is a function from names to  *)
(* nodes; a node carries what readdir (type) and lstat (mode, uid, gid,    *)
(* size = Len(data), rdev = data[1]) say of it, its bytes or link target   *)
(* (data), what libelf finds as its .gnu_debuglink section header (sec)    *)
(* and, for a directory, its contents (kids).                              *)

Sides == {"old", "new"}

Node(type, mode, uid, gid, data, sec, kids) ==
    [type |-> type, mode |-> mode, uid |-> uid, gid |-> gid,
     data |-> data, sec |-> sec, kids |-> kids]

RECURSIVE NodeAt(_, _)
NodeAt(kids, path) ==
    IF Len(path) = 1 THEN kids[path[1]]
    ELSE NodeAt(kids[path[1]].kids, Tail(path))

\* an entry (struct fstate) is named by its side and its path below the root
Entry(side, path) == [side |-> side, path |-> path]
NodeOf(e) == NodeAt(fs[e.side], e.path)

RECURSIVE PathsBelow(_, _)
PathsBelow(kids, prefix) ==
    UNION {{Append(prefix, n)} \cup PathsBelow(kids[n].kids, Append(prefix, n))
           : n \in DOMAIN kids}

RECURSIVE TreeSize(_)
TreeSize(kids) ==
    IF DOMAIN kids = {} THEN 0
    ELSE LET n == CHOOSE x \in DOMAIN kids : TRUE
             rest == [m \in DOMAIN kids \ {n} |-> kids[m]]
         IN  1 + TreeSize(kids[n].kids) + TreeSize(rest)

-----------------------------------------------------------------------------
(* Sparse counters and the state the leaf functions read and write         *)

Count(f, e) == IF e \in DOMAIN f THEN f[e] ELSE 0
Bump(f, e) == IF e \in DOMAIN f THEN [f EXCEPT ![e] = @ + 1] ELSE f @@ (e :> 1)

World ==
    [records |-> records, stb |-> stb, link_dest |-> link_dest,
     lstat_calls |-> lstat_calls, readlink_calls |-> readlink_calls,
     faults |-> faults, io_failed |-> io_failed]

SetWorld(w) ==
    /\ records' = w.records
    /\ stb' = w.stb
    /\ link_dest' = w.link_dest
    /\ lstat_calls' = w.lstat_calls
    /\ readlink_calls' = w.readlink_calls
    /\ faults' = w.faults
    /\ io_failed' = w.io_failed

\* a system call failed
Fault(w) == [w EXCEPT !.faults = @ + 1, !.io_failed = TRUE]

-----------------------------------------------------------------------------
(* fstate.c *)

\* fstate_compare_name: strcmp of two names
fstate_compare_name(a, b) == IF a < b THEN -1 ELSE IF a > b THEN 1 ELSE 0

\* qsort left out: the names stay in readdir's order
qsort_unsorted(files) == files

\* qsort(ds->files, ..., fstate_compare_name)
RECURSIVE Insert(_, _)
Insert(sorted, n) ==
    IF sorted = <<>> THEN <<n>>
    ELSE IF fstate_compare_name(n, Head(sorted)) <= 0 THEN <<n>> \o sorted
    ELSE <<Head(sorted)>> \o Insert(Tail(sorted), n)

RECURSIVE qsort(_)
qsort(files) ==
    IF files = <<>> THEN <<>>
    ELSE Insert(qsort(Tail(files)), Head(files))

\* the orders in which readdir may hand out the names of a directory
ReaddirOrders(kids) ==
    {s \in [1..Cardinality(DOMAIN kids) -> DOMAIN kids] :
        \A i, j \in DOMAIN s : i /= j => s[i] /= s[j]}

\* dstate_new + dstate_read: the populated snapshot, or NULL when opendir
\* fails.  "." and ".." are never among the names of kids.
dstate_read(w, side, path, ok, order) ==
    IF ~ok THEN [ds |-> NULL, w |-> Fault(w)]
    ELSE [ds |-> <<[side |-> side, path |-> path, files |-> qsort(order)]>>,
          w |-> w]

\* fstate_descend: dstate_new(fstate_path(fs)), dstate_read, NULL on failure
fstate_descend(w, e, ok, order) == dstate_read(w, e.side, e.path, ok, order)

\* dstate_current_entry with the bound off by one: the last entry is never
\* handed out
dstate_current_entry_short(ds, cursor) ==
    IF cursor + 1 >= Len(ds[1].files) THEN NULL
    ELSE <<Entry(ds[1].side, Append(ds[1].path, ds[1].files[cursor + 1]))>>

\* dstate_current_entry
dstate_current_entry(ds, cursor) ==
    IF cursor >= Len(ds[1].files) THEN NULL
    ELSE <<Entry(ds[1].side, Append(ds[1].path, ds[1].files[cursor + 1]))>>

\* fstate_stat: the cached buffer, else one lstat whose result is cached on
\* success only
fstate_stat(w, e, ok) ==
    IF e \in w.stb THEN [ok |-> TRUE, w |-> w]
    ELSE LET w1 == [w EXCEPT !.lstat_calls = Bump(@, e)]
         IN  IF ok THEN [ok |-> TRUE, w |-> [w1 EXCEPT !.stb = @ \cup {e}]]
             ELSE [ok |-> FALSE, w |-> Fault(w1)]

\* a C string: the bytes before the first NUL
RECURSIVE CStr(_)
CStr(buf) ==
    IF buf = <<>> \/ Head(buf) = 0 THEN <<>>
    ELSE <<Head(buf)>> \o CStr(Tail(buf))

\* What the stack holds where fstate_readlink puts pathbuf: readlink(2)
\* writes the target without a terminating NUL and strdup reads on to the
\* first NUL, so what follows the target in the buffer becomes part of
\* link_dest.  The window below is followed by a NUL.
StackResidue == {<<0, 0>>, <<0, 1>>, <<1, 1>>}

\* fstate_readlink: the cached target, else one readlink whose result is
\* cached on success only.  buf is pathbuf as the call leaves it.
fstate_readlink(w, e, ok, residue) ==
    IF e \in DOMAIN w.link_dest THEN [ok |-> TRUE, w |-> w, buf |-> residue]
    ELSE LET w1 == [w EXCEPT !.readlink_calls = Bump(@, e)]
             target == NodeOf(e).data
             buf == IF Len(target) >= Len(residue) THEN target
                    ELSE target \o SubSeq(residue, Len(target) + 1, Len(residue))
         IN  IF ok
             THEN [ok |-> TRUE, buf |-> buf,
                   w |-> [w1 EXCEPT !.link_dest = @ @@ (e :> CStr(buf))]]
             ELSE [ok |-> FALSE, buf |-> residue, w |-> Fault(w1)]

-----------------------------------------------------------------------------
(* report.c *)

\* report_changed_file: one record per call that gets through the stat and,
\* for a symbolic link, the readlink
report_changed_file(w, how, e, okStat, okLink, residue) ==
    LET st == fstate_stat(w, e, okStat)
    IN  IF ~st.ok THEN [ok |-> FALSE, w |-> st.w]
        ELSE IF NodeOf(e).type = "DT_LNK"
        THEN LET rl == fstate_readlink(st.w, e, okLink, residue)
             IN  IF ~rl.ok THEN [ok |-> FALSE, w |-> rl.w]
                 ELSE [ok |-> TRUE,
                       w |-> [rl.w EXCEPT !.records =
                                 Append(@, [how |-> how, fs |-> e])]]
        ELSE [ok |-> TRUE,
              w |-> [st.w EXCEPT !.records = Append(@, [how |-> how, fs |-> e])]]

-----------------------------------------------------------------------------
(* ftreecmp.c: the build id of .gnu_debuglink *)

Min(a, b) == IF a < b THEN a ELSE b
Max(a, b) == IF a > b THEN a ELSE b

\* for (k = 0; k < size && data[k] != 0; ++k): the index of the first NUL,
\* or the length of the data
RECURSIVE FirstNul(_)
FirstNul(data) ==
    IF data = <<>> \/ Head(data) = 0 THEN 0
    ELSE 1 + FirstNul(Tail(data))

\* k += 1; k = ((k + align - 1) & ~(align - 1)), in unsigned int
PaddedOffset(k, align) ==
    LET a == U32(align)
        one == U32(1)
    IN  And32(Sub32(Add32(U32(k + 1), a), one), Not32(Sub32(a, one)))

\* elf_locate_build_id: the range of the build id in a section of `size'
\* bytes at `offset' of the file, or NULL
elf_locate_build_id(content, offset, size, align) ==
    IF size > MaxSectionSize THEN NULL
    ELSE IF And32(U32(align), Sub32(U32(align), U32(1))) /= <<0, 0>> THEN NULL
    ELSE IF Max(0, Min(size, Len(content) - offset)) /= size THEN NULL
    ELSE LET data == SubSeq(content, offset + 1, offset + size)
             k == PaddedOffset(FirstNul(data), align)
         IN  IF Ge32(k, size) THEN NULL
             ELSE IF size - k[2] /= 4 /\ size - k[2] /= 8 THEN NULL
             ELSE <<[offset |-> offset + k[2], size |-> size - k[2]]>>

\* elf_identify_debug_section: the range to ignore in a file, or NULL.
\* libelf's walk of the section table is node.sec.
elf_identify_debug_section(node) ==
    IF ~opt_ignore_buildid THEN NULL
    ELSE IF node.sec = NoSec THEN NULL
    ELSE elf_locate_build_id(node.data, node.sec[1].sh_offset,
                             node.sec[1].sh_size, node.sec[1].sh_addralign)

\* ignored_range_whiteout: buf, the `len' bytes read at `offset', with the
\* bytes of the range zeroed
ignored_range_whiteout(skip, buf, offset, len) ==
    IF offset >= skip[1].offset + skip[1].size THEN buf
    ELSE IF skip[1].offset >= offset + len THEN buf
    ELSE LET relative_end == skip[1].offset + skip[1].size - offset
             relative_start == Max(skip[1].offset - offset, 0)
         IN  IF relative_end < 0 \/ len < relative_end THEN buf
             ELSE [i \in DOMAIN buf |->
                     IF relative_start < i /\ i <= relative_end THEN 0 ELSE buf[i]]

-----------------------------------------------------------------------------
(* ftreecmp.c: compare_regular_files *)

\* read(fd, buf, sizeof(buf)) at `offset' of a regular file
ReadChunk(content, offset) ==
    SubSeq(content, offset + 1, Min(Len(content), offset + ChunkSize))

\* The read loop.  The read calls are numbered 1, 2, ... in the order they
\* are issued; failRead is the one that fails (0: none).  err says that
\* the loop ended on a failed read.
RECURSIVE CompareChunks(_, _, _, _, _, _)
CompareChunks(oc, nc, skip, offset, reads, failRead) ==
    IF failRead = reads + 1 \/ failRead = reads + 2
    THEN [status |-> FALSE, err |-> TRUE]
    ELSE LET old_buf == ReadChunk(oc, offset)
             new_buf == ReadChunk(nc, offset)
             old_len == Len(old_buf)
             new_len == Len(new_buf)
             old_m == IF skip = NULL THEN old_buf
                      ELSE ignored_range_whiteout(skip, old_buf, offset, old_len)
             new_m == IF skip = NULL THEN new_buf
                      ELSE ignored_range_whiteout(skip, new_buf, offset, new_len)
         IN  IF old_len /= new_len \/ old_m /= new_m
             THEN [status |-> FALSE, err |-> FALSE]
             ELSE IF old_len = 0 THEN [status |-> TRUE, err |-> FALSE]
             ELSE CompareChunks(oc, nc, skip, offset + old_len, reads + 2, failRead)

\* the number of read calls a comparison of two files of n bytes can issue
MaxReads(n) == 2 * ((n + ChunkSize - 1) \div ChunkSize + 1)

\* compare_regular_files: TRUE iff it found the two files equal
compare_regular_files(w, old, new, okOpenOld, okOpenNew, failRead) ==
    LET o == NodeOf(old)
        n == NodeOf(new)
        old_buildid == elf_identify_debug_section(o)
        new_buildid == elf_identify_debug_section(n)
        skip == IF old_buildid /= NULL /\ new_buildid /= NULL
                   /\ old_buildid = new_buildid
                THEN old_buildid ELSE NULL
        r == CompareChunks(o.data, n.data, skip, 0, 0, failRead)
    IN  IF Len(o.data) /= Len(n.data) THEN [res |-> FALSE, w |-> w]
        ELSE IF ~okOpenOld THEN [res |-> FALSE, w |-> Fault(w)]
        ELSE IF ~okOpenNew THEN [res |-> FALSE, w |-> Fault(w)]
        ELSE [res |-> r.status, w |-> IF r.err THEN Fault(w) ELSE w]

-----------------------------------------------------------------------------
(* ftreecmp.c: compare_files, the inode attributes *)

\* how, after the checks of mode, owner and group
ChangeFlags(o, n) ==
    LET diff == BitXor(o.mode, n.mode)
        suid == IF BitAnd(S_ISUID + S_ISGID + S_ISVTX, diff) /= 0
                THEN FSTATE_CHANGED_CRIT ELSE 0
        owner == IF o.uid /= n.uid \/ o.gid /= n.gid
                 THEN FSTATE_CHANGED_CRIT ELSE 0
        perms == IF BitAnd(ALLPERMS, diff) /= 0
                 THEN FSTATE_CHANGED_MODE ELSE 0
    IN  BitOr(BitOr(suid, owner), perms)

-----------------------------------------------------------------------------
(* The inputs: pairs of trees, and the -i option *)

RegNode(mode, uid, gid, data, sec) == Node("DT_REG", mode, uid, gid, data, sec, <<>>)
LnkNode(mode, uid, gid, target) == Node("DT_LNK", mode, uid, gid, target, NoSec, <<>>)
ChrNode(mode, uid, gid, rdev) == Node("DT_CHR", mode, uid, gid, <<rdev>>, NoSec, <<>>)
FifoNode(mode, uid, gid) == Node("DT_FIFO", mode, uid, gid, <<>>, NoSec, <<>>)
DirNode(mode, uid, gid, kids) == Node("DT_DIR", mode, uid, gid, <<>>, NoSec, kids)

Input(old, new, opt) == [old |-> old, new |-> new, opt |-> opt]

\* all directory contents of at most n objects, with leaves drawn from a set
RECURSIVE Contents(_, _)
Contents(leaves, n) ==
    IF n = 0 THEN {<<>>}
    ELSE LET nodes == leaves \cup {DirNode(493, 0, 0, c) : c \in Contents(leaves, n - 1)}
         IN  {f \in UNION {[S -> nodes] : S \in SUBSET Names} : TreeSize(f) <= n}

\* 1. two trees of any shapes, MaxNodes objects between them
ShapeLeaves == {RegNode(420, 0, 0, <<1>>, NoSec), LnkNode(511, 0, 0, <<1>>)}
ShapeInputs ==
    LET C == Contents(ShapeLeaves, MaxNodes)
    IN  {Input(p[1], p[2], FALSE) :
            p \in {q \in C \X C : TreeSize(q[1]) + TreeSize(q[2]) <= MaxNodes}}

\* 2. a tree of MaxNodes objects of every kind, and its identical copy
DebugLink(offset, size, align) ==
    <<[sh_offset |-> offset, sh_size |-> size, sh_addralign |-> align]>>
CopyLeaves ==
    {RegNode(420, 0, 0, <<1>>, NoSec), RegNode(493, 0, 0, <<>>, NoSec),
     LnkNode(511, 0, 0, <<1>>), ChrNode(432, 0, 5, 1), FifoNode(420, 1, 0)}
CopyInputs ==
    {Input(c, c, opt) : c \in Contents(CopyLeaves, MaxNodes), opt \in {FALSE}}

\* 3. one matched pair of each kind, its mode, owner and group varied
Modes == {420, 384, 2468, 1444, 932}   \* 0644 0600 04644 02644 01644
Metas == {<<420, 0, 0>>, <<2468, 0, 0>>} \X (Modes \X {0, 1} \X {0, 1})
MetaPairs(o, n) ==
    {<<RegNode(o[1], o[2], o[3], <<1>>, NoSec), RegNode(n[1], n[2], n[3], <<1>>, NoSec)>>,
     <<LnkNode(o[1], o[2], o[3], <<1>>), LnkNode(n[1], n[2], n[3], <<1>>)>>,
     <<ChrNode(o[1], o[2], o[3], 1), ChrNode(n[1], n[2], n[3], 1)>>,
     <<FifoNode(o[1], o[2], o[3]), FifoNode(n[1], n[2], n[3])>>,
     <<DirNode(o[1], o[2], o[3], <<>>), DirNode(n[1], n[2], n[3], <<>>)>>}
Pair(o, n, opt) == Input(1 :> o, 1 :> n, opt)
MetaInputs ==
    {Pair(pr[1], pr[2], FALSE) : pr \in UNION {MetaPairs(m[1], m[2]) : m \in Metas}}

\* 4. one matched pair of links or of devices, the target or device varied
Targets == {<<1>>, <<1, 2>>, <<2>>}
DataInputs ==
    {Pair(LnkNode(511, 0, 0, t[1]), LnkNode(m, 0, 0, t[2]), FALSE)
        : t \in Targets \X Targets, m \in {511, 448}} \cup
    {Pair(ChrNode(432, 0, 0, r[1]), ChrNode(m, 0, 0, r[2]), FALSE)
        : r \in {1, 2} \X {1, 2}, m \in {432, 384}}

\* 5. one matched pair of regular files of MaxFileLen bytes (or one byte
\* less): a .gnu_debuglink section of 6 bytes (a name of one character,
\* its NUL, 4 bytes of build id) at one of three places or nowhere, and at
\* most one byte of the new file changed.
Sections == {NoSec} \cup {DebugLink(off, 6, 1) : off \in {0, 2, 4}}
FileBytes(len, sec, changed) ==
    [i \in 1..len |->
        IF i \in changed THEN 2
        ELSE IF sec /= NoSec /\ i = sec[1].sh_offset + 2 THEN 0
        ELSE 1]
FileInputs ==
    {Pair(RegNode(420, 0, 0, FileBytes(MaxFileLen, so, {}), so),
          RegNode(420, 0, 0, FileBytes(MaxFileLen, sn, d), sn), opt)
        : so \in Sections, sn \in Sections,
          d \in {{}} \cup {{i} : i \in 1..MaxFileLen}, opt \in BOOLEAN} \cup
    {Pair(RegNode(420, 0, 0, FileBytes(MaxFileLen, so, {}), so),
          RegNode(m, 0, 0, FileBytes(MaxFileLen - 1, so, {}), so), opt)
        : so \in Sections, m \in {420, 384}, opt \in BOOLEAN}

\* 6. a file whose mode changed beside a removed directory (empty or not)
\* and an added file
ScenarioInputs ==
    {Input((1 :> RegNode(420, 0, 0, <<1>>, NoSec)) @@ (2 :> DirNode(493, 0, 0, c)),
           (1 :> RegNode(384, 0, 0, <<1>>, NoSec))
               @@ (3 :> RegNode(420, 0, 0, <<1>>, NoSec)), FALSE)
        : c \in Contents(ShapeLeaves, 1)}

\* 7. one matched pair of regular files of MaxFileLen bytes with a
\* .gnu_debuglink section at the start of the file, of every size and
\* alignment the section header can declare (small ones, and one size
\* beyond the sanity bound): the reference name ends at byte `nul' of the
\* section (0: no NUL in the file), and the new file is the old one or
\* differs from it in the first byte of the name.
ElfSizes == {4, 6, 8, 9, MaxSectionSize + 1}
ElfAligns == {0, 1, 2, 3, 4, 8}
ElfBytes(nul, changed) ==
    [i \in 1..MaxFileLen |->
        IF i \in changed THEN 2 ELSE IF i = nul THEN 0 ELSE 1]
ElfInputs ==
    {Pair(RegNode(420, 0, 0, ElfBytes(nul, {}), DebugLink(0, size, align)),
          RegNode(420, 0, 0, ElfBytes(nul, d), DebugLink(0, size, align)), TRUE)
        : size \in ElfSizes, align \in ElfAligns, nul \in {0, 2, 4},
          d \in {{}, {1}}}

Inputs ==
    ShapeInputs \cup CopyInputs \cup MetaInputs \cup DataInputs \cup FileInputs
        \cup ScenarioInputs \cup ElfInputs

Init ==
    /\ \E in \in Inputs :
          /\ fs = [old |-> in.old, new |-> in.new]
          /\ opt_ignore_buildid = in.opt
    /\ pc = "main"
    /\ exitval = 0
    /\ stack = <<>>
    /\ retval = TRUE
    /\ records = <<>>
    /\ stb = {}
    /\ link_dest = <<>>
    /\ lstat_calls = <<>>
    /\ readlink_calls = <<>>
    /\ faults = 0
    /\ io_failed = FALSE

-----------------------------------------------------------------------------
(* The call stack *)

CdFrame(old, new) ==
    [fn |-> "compare_directories", pc |-> "entry", old |-> old, new |-> new,
     old_cursor |-> 0, new_cursor |-> 0, status |-> TRUE]
CfFrame(old, new) ==
    [fn |-> "compare_files", pc |-> "entry", old |-> old, new |-> new,
     how |-> 0, status |-> TRUE]
RrFrame(how, e) ==
    [fn |-> "report_recursively", pc |-> "entry", how |-> how, fs |-> e,
     subdir |-> NULL, cursor |-> 0, status |-> TRUE]

Top == stack[Len(stack)]
At(fn, label) ==
    /\ pc = "running"
    /\ stack /= <<>>
    /\ Top.fn = fn
    /\ Top.pc = label
\* the running function goes on as frame f
Goto(f) == stack' = [stack EXCEPT ![Len(stack)] = f]
\* the running function goes on as frame f and calls g
Call(f, g) == stack' = Append([stack EXCEPT ![Len(stack)] = f], g)
\* the running function returns v
Return(v) ==
    /\ stack' = SubSeq(stack, 1, Len(stack) - 1)
    /\ retval' = v

\* the inputs of a readlink on e: whether it succeeds, and the stack residue
LinkInputs(e) ==
    IF NodeOf(e).type = "DT_LNK" /\ e \notin DOMAIN link_dest
    THEN BOOLEAN \X StackResidue
    ELSE {<<TRUE, <<0, 0>>>>}
\* the inputs of an lstat on e
StatInputs(e) == IF e \in stb THEN {TRUE} ELSE BOOLEAN

-----------------------------------------------------------------------------
(* main *)

\* main: read the two roots and call compare_directories; a root that
\* cannot be read ends the run with status 1
Main ==
    /\ pc = "main"
    /\ \E okOld, okNew \in BOOLEAN :
       \E ordOld \in ReaddirOrders(fs.old), ordNew \in ReaddirOrders(fs.new) :
          LET old == dstate_read(World, "old", <<>>, okOld, ordOld)
              new == dstate_read(old.w, "new", <<>>, okNew, ordNew)
          IN  /\ okOld \/ okNew
              /\ IF ~okOld
                 THEN /\ SetWorld(old.w)
                      /\ pc' = "done"
                      /\ exitval' = 1
                      /\ UNCHANGED stack
                 ELSE IF ~okNew
                 THEN /\ SetWorld(new.w)
                      /\ pc' = "done"
                      /\ exitval' = 1
                      /\ UNCHANGED stack
                 ELSE /\ SetWorld(new.w)
                      /\ pc' = "running"
                      /\ stack' = <<CdFrame(old.ds, new.ds)>>
                      /\ UNCHANGED exitval
    /\ faults' <= MaxFaults
    /\ UNCHANGED <<fs, opt_ignore_buildid, retval>>

\* main with diff's convention: status 1 when anything was reported
MainExit_status_of_diff ==
    /\ pc = "running"
    /\ stack = <<>>
    /\ pc' = "done"
    /\ exitval' = IF retval /\ records = <<>> THEN 0 ELSE 1
    /\ UNCHANGED <<fs, opt_ignore_buildid, stack, retval, records, stb,
                   link_dest, lstat_calls, readlink_calls, faults, io_failed>>

\* main: compare_directories has returned
MainExit ==
    /\ pc = "running"
    /\ stack = <<>>
    /\ pc' = "done"
    /\ exitval' = IF retval THEN 0 ELSE 1
    /\ UNCHANGED <<fs, opt_ignore_buildid, stack, retval, records, stb,
                   link_dest, lstat_calls, readlink_calls, faults, io_failed>>

unchanged_world ==
    UNCHANGED <<records, stb, link_dest, lstat_calls, readlink_calls, faults,
                io_failed>>
unchanged_env == UNCHANGED <<fs, opt_ignore_buildid>>

-----------------------------------------------------------------------------
(* compare_directories *)

\* old->cursor = 0; new->cursor = 0.  A snapshot that fstate_descend could
\* not populate is NULL, and the store through it ends the process
\* (SIGSEGV).
CompareDirectoriesEnter ==
    /\ At("compare_directories", "entry")
    /\ IF Top.old = NULL \/ Top.new = NULL
       THEN /\ pc' = "crashed"
            /\ exitval' = 139
            /\ UNCHANGED stack
       ELSE /\ Goto([Top EXCEPT !.pc = "loop", !.old_cursor = 0, !.new_cursor = 0])
            /\ UNCHANGED <<pc, exitval>>
    /\ UNCHANGED retval
    /\ unchanged_world
    /\ unchanged_env

\* the head of while (true): which side, if any, is exhausted, else strcmp
\* of the two current names
CompareDirectoriesLoop ==
    /\ At("compare_directories", "loop")
    /\ LET old_fs == dstate_current_entry(Top.old, Top.old_cursor)
           new_fs == dstate_current_entry(Top.new, Top.new_cursor)
       IN  IF old_fs = NULL THEN Goto([Top EXCEPT !.pc = "tail_new"])
           ELSE IF new_fs = NULL THEN Goto([Top EXCEPT !.pc = "tail_old"])
           ELSE LET rv == fstate_compare_name(old_fs[1].path[Len(old_fs[1].path)],
                                              new_fs[1].path[Len(new_fs[1].path)])
                IN  IF rv < 0
                    THEN Call([Top EXCEPT !.pc = "removed"],
                              RrFrame(FSTATE_CHANGED_REMOVED, old_fs[1]))
                    ELSE IF rv > 0
                    THEN Call([Top EXCEPT !.pc = "added"],
                              RrFrame(FSTATE_CHANGED_ADDED, new_fs[1]))
                    ELSE Call([Top EXCEPT !.pc = "compared"],
                              CfFrame(old_fs[1], new_fs[1]))
    /\ UNCHANGED <<pc, exitval, retval>>
    /\ unchanged_world
    /\ unchanged_env

\* old is exhausted: report what is left of new as added, then return
CompareDirectoriesTailNew ==
    /\ At("compare_directories", "tail_new")
    /\ LET new_fs == dstate_current_entry(Top.new, Top.new_cursor)
       IN  IF new_fs /= NULL
           THEN /\ Call([Top EXCEPT !.pc = "tail_added"],
                        RrFrame(FSTATE_CHANGED_ADDED, new_fs[1]))
                /\ UNCHANGED retval
           ELSE Return(Top.status)
    /\ UNCHANGED <<pc, exitval>>
    /\ unchanged_world
    /\ unchanged_env

\* new is exhausted: report what is left of old as removed, then return
CompareDirectoriesTailOld ==
    /\ At("compare_directories", "tail_old")
    /\ LET old_fs == dstate_current_entry(Top.old, Top.old_cursor)
       IN  IF old_fs /= NULL
           THEN /\ Call([Top EXCEPT !.pc = "tail_removed"],
                        RrFrame(FSTATE_CHANGED_REMOVED, old_fs[1]))
                /\ UNCHANGED retval
           ELSE Return(Top.status)
    /\ UNCHANGED <<pc, exitval>>
    /\ unchanged_world
    /\ unchanged_env

\* the callee has returned: only compare_files' value is looked at; move
\* the cursor(s) and go on
CompareDirectoriesAdvance ==
    /\ pc = "running"
    /\ stack /= <<>>
    /\ Top.fn = "compare_directories"
    /\ Top.pc \in {"removed", "added", "compared", "tail_added", "tail_removed"}
    /\ Goto(CASE Top.pc = "removed" ->
                    [Top EXCEPT !.pc = "loop", !.old_cursor = @ + 1]
              [] Top.pc = "added" ->
                    [Top EXCEPT !.pc = "loop", !.new_cursor = @ + 1]
              [] Top.pc = "compared" ->
                    [Top EXCEPT !.pc = "loop", !.new_cursor = @ + 1,
                                !.old_cursor = @ + 1,
                                !.status = IF ~retval THEN FALSE ELSE @]
              [] Top.pc = "tail_added" ->
                    [Top EXCEPT !.pc = "tail_new", !.new_cursor = @ + 1]
              [] Top.pc = "tail_removed" ->
                    [Top EXCEPT !.pc = "tail_old", !.old_cursor = @ + 1])
    /\ UNCHANGED <<pc, exitval, retval>>
    /\ unchanged_world
    /\ unchanged_env

-----------------------------------------------------------------------------
(* compare_files *)

\* old->type != new->type: the old entry is reported removed and the new
\* one added, by report_changed_file; what the two calls return is dropped
CompareFilesKindChanged ==
    /\ At("compare_files", "entry")
    /\ NodeOf(Top.old).type /= NodeOf(Top.new).type
    /\ \E so \in StatInputs(Top.old), lo \in LinkInputs(Top.old),
          sn \in StatInputs(Top.new), ln \in LinkInputs(Top.new) :
          LET r1 == report_changed_file(World, FSTATE_CHANGED_REMOVED, Top.old,
                                        so, lo[1], lo[2])
              r2 == report_changed_file(r1.w, FSTATE_CHANGED_ADDED, Top.new,
                                        sn, ln[1], ln[2])
          IN  SetWorld(r2.w)
    /\ faults' <= MaxFaults
    /\ Return(Top.status)
    /\ UNCHANGED <<pc, exitval>>
    /\ unchanged_env

\* same type: stat both entries (return false when either fails) and set
\* how from mode, owner and group
CompareFilesStat ==
    /\ At("compare_files", "entry")
    /\ NodeOf(Top.old).type = NodeOf(Top.new).type
    /\ \E so \in StatInputs(Top.old), sn \in StatInputs(Top.new) :
          LET st1 == fstate_stat(World, Top.old, so)
              st2 == fstate_stat(st1.w, Top.new, sn)
          IN  /\ so \/ sn
              /\ IF ~st1.ok
                 THEN SetWorld(st1.w) /\ Return(FALSE)
                 ELSE IF ~st2.ok
                 THEN SetWorld(st2.w) /\ Return(FALSE)
                 ELSE /\ SetWorld(st2.w)
                      /\ Goto([Top EXCEPT !.pc = "data",
                                 !.how = ChangeFlags(NodeOf(Top.old), NodeOf(Top.new))])
                      /\ UNCHANGED retval
    /\ faults' <= MaxFaults
    /\ UNCHANGED <<pc, exitval>>
    /\ unchanged_env

\* the inputs of the switch on the type: for regular files whether the two
\* opens succeed and which read fails, for links whether the two readlinks
\* succeed and the stack residue
SwitchInputs(old) ==
    LET type == NodeOf(old).type
    IN  IF type = "DT_REG"
        THEN {in \in BOOLEAN \X BOOLEAN \X (0..MaxReads(Len(NodeOf(old).data)))
                     \X {<<0, 0>>} :
                 /\ in[1] \/ in[2]
                 /\ (~in[1] \/ ~in[2]) => in[3] = 0}
        ELSE IF type = "DT_LNK"
        THEN {in \in BOOLEAN \X BOOLEAN \X {0} \X StackResidue : in[1] \/ in[2]}
        ELSE {<<TRUE, TRUE, 0, <<0, 0>>>>}

\* switch (old->type): the check of the data
CompareFilesData ==
    /\ At("compare_files", "data")
    /\ \E in \in SwitchInputs(Top.old) :
          LET type == NodeOf(Top.old).type
              data == BitOr(Top.how, FSTATE_CHANGED_DATA)
          IN  IF type = "DT_REG"
              THEN LET r == compare_regular_files(World, Top.old, Top.new,
                                                  in[1], in[2], in[3])
                   IN  /\ SetWorld(r.w)
                       /\ Goto([Top EXCEPT !.pc = "report",
                                           !.how = IF ~r.res THEN data ELSE @])
              ELSE IF type = "DT_LNK"
              THEN LET r1 == fstate_readlink(World, Top.old, in[1], in[4])
                       r2 == fstate_readlink(r1.w, Top.new, in[2], r1.buf)
                   IN  IF ~r1.ok
                       THEN /\ SetWorld(r1.w)
                            /\ Goto([Top EXCEPT !.pc = "report", !.status = FALSE])
                       ELSE IF ~r2.ok
                       THEN /\ SetWorld(r2.w)
                            /\ Goto([Top EXCEPT !.pc = "report", !.status = FALSE])
                       ELSE /\ SetWorld(r2.w)
                            /\ Goto([Top EXCEPT !.pc = "report",
                                       !.how = IF r2.w.link_dest[Top.old]
                                                    /= r2.w.link_dest[Top.new]
                                                THEN data ELSE @])
              ELSE IF type \in {"DT_CHR", "DT_BLK"}
              THEN /\ SetWorld(World)
                   /\ Goto([Top EXCEPT !.pc = "report",
                              !.how = IF NodeOf(Top.old).data /= NodeOf(Top.new).data
                                      THEN data ELSE @])
              ELSE /\ SetWorld(World)
                   /\ Goto([Top EXCEPT !.pc = "report"])
    /\ faults' <= MaxFaults
    /\ UNCHANGED <<pc, exitval, retval>>
    /\ unchanged_env

\* if (how != 0): the two reports, removed-old then added-new, whatever
\* they return; then a directory is descended into, anything else returns
CompareFilesReport ==
    /\ At("compare_files", "report")
    /\ \E lo \in LinkInputs(Top.old), ln \in LinkInputs(Top.new) :
          LET r1 == report_changed_file(World,
                        BitOr(Top.how, FSTATE_CHANGED_REMOVED), Top.old,
                        TRUE, lo[1], lo[2])
              r2 == report_changed_file(r1.w,
                        BitOr(Top.how, FSTATE_CHANGED_ADDED), Top.new,
                        TRUE, ln[1], ln[2])
          IN  IF Top.how /= 0 THEN SetWorld(r2.w) ELSE SetWorld(World)
    /\ faults' <= MaxFaults
    /\ IF NodeOf(Top.old).type = "DT_DIR"
       THEN Goto([Top EXCEPT !.pc = "descend"]) /\ UNCHANGED retval
       ELSE Return(Top.status)
    /\ UNCHANGED <<pc, exitval>>
    /\ unchanged_env

\* old_subdir = fstate_descend(old); new_subdir = fstate_descend(new);
\* compare_directories(report, old_subdir, new_subdir)
CompareFilesDescend ==
    /\ At("compare_files", "descend")
    /\ \E okOld, okNew \in BOOLEAN :
       \E ordOld \in ReaddirOrders(NodeOf(Top.old).kids),
          ordNew \in ReaddirOrders(NodeOf(Top.new).kids) :
          LET old_subdir == fstate_descend(World, Top.old, okOld, ordOld)
              new_subdir == fstate_descend(old_subdir.w, Top.new, okNew, ordNew)
          IN  /\ SetWorld(new_subdir.w)
              /\ Call([Top EXCEPT !.pc = "compared"],
                      CdFrame(old_subdir.ds, new_subdir.ds))
    /\ faults' <= MaxFaults
    /\ UNCHANGED <<pc, exitval, retval>>
    /\ unchanged_env

\* status = compare_directories(...); dstate_free of both; return status
CompareFilesReturn ==
    /\ At("compare_files", "compared")
    /\ Return(retval)
    /\ UNCHANGED <<pc, exitval>>
    /\ unchanged_world
    /\ unchanged_env

-----------------------------------------------------------------------------
(* report_recursively *)

\* stat the entry and report it; return false when either fails
ReportRecursivelyEnter ==
    /\ At("report_recursively", "entry")
    /\ \E so \in StatInputs(Top.fs), li \in LinkInputs(Top.fs) :
          LET st == fstate_stat(World, Top.fs, so)
              rc == report_changed_file(st.w, Top.how, Top.fs, TRUE, li[1], li[2])
          IN  IF ~st.ok
              THEN SetWorld(st.w) /\ Return(FALSE)
              ELSE IF ~rc.ok
              THEN SetWorld(rc.w) /\ Return(FALSE)
              ELSE /\ SetWorld(rc.w)
                   /\ IF NodeOf(Top.fs).type = "DT_DIR"
                      THEN Goto([Top EXCEPT !.pc = "descend"]) /\ UNCHANGED retval
                      ELSE Return(Top.status)
    /\ faults' <= MaxFaults
    /\ UNCHANGED <<pc, exitval>>
    /\ unchanged_env

\* subdir = fstate_descend(fs).  A directory that cannot be listed gives
\* NULL, and dstate_current_entry's load through it ends the process
\* (SIGSEGV).
ReportRecursivelyDescend ==
    /\ At("report_recursively", "descend")
    /\ \E ok \in BOOLEAN, order \in ReaddirOrders(NodeOf(Top.fs).kids) :
          LET subdir == fstate_descend(World, Top.fs, ok, order)
          IN  /\ SetWorld(subdir.w)
              /\ IF subdir.ds = NULL
                 THEN /\ pc' = "crashed"
                      /\ exitval' = 139
                      /\ UNCHANGED stack
                 ELSE /\ Goto([Top EXCEPT !.pc = "loop", !.subdir = subdir.ds,
                                          !.cursor = 0])
                      /\ UNCHANGED <<pc, exitval>>
    /\ faults' <= MaxFaults
    /\ UNCHANGED retval
    /\ unchanged_env

\* while ((entry = dstate_current_entry(subdir)) != NULL): report the
\* entry; after the last one, dstate_free and return status
ReportRecursivelyLoop ==
    /\ At("report_recursively", "loop")
    /\ LET entry == dstate_current_entry(Top.subdir, Top.cursor)
       IN  IF entry /= NULL
           THEN /\ Call([Top EXCEPT !.pc = "reported"], RrFrame(Top.how, entry[1]))
                /\ UNCHANGED retval
           ELSE Return(Top.status)
    /\ UNCHANGED <<pc, exitval>>
    /\ unchanged_world
    /\ unchanged_env

\* if (!report_recursively(...)) status = false; subdir->cursor += 1
ReportRecursivelyAdvance ==
    /\ At("report_recursively", "reported")
    /\ Goto([Top EXCEPT !.pc = "loop", !.cursor = @ + 1,
                        !.status = IF ~retval THEN FALSE ELSE @])
    /\ UNCHANGED <<pc, exitval, retval>>
    /\ unchanged_world
    /\ unchanged_env

-----------------------------------------------------------------------------

Next ==
    \/ Main
    \/ MainExit
    \/ CompareDirectoriesEnter
    \/ CompareDirectoriesLoop
    \/ CompareDirectoriesTailNew
    \/ CompareDirectoriesTailOld
    \/ CompareDirectoriesAdvance
    \/ CompareFilesKindChanged
    \/ CompareFilesStat
    \/ CompareFilesData
    \/ CompareFilesReport
    \/ CompareFilesDescend
    \/ CompareFilesReturn
    \/ ReportRecursivelyEnter
    \/ ReportRecursivelyDescend
    \/ ReportRecursivelyLoop
    \/ ReportRecursivelyAdvance

Spec == Init /\ [][Next]_vars

-----------------------------------------------------------------------------
(* What the claims speak of *)

Other(side) == IF side = "old" THEN "new" ELSE "old"
Paths(side) == PathsBelow(fs[side], <<>>)
Prefixes(p) == {SubSeq(p, 1, k) : k \in 1..Len(p)}
Parent(p) == SubSeq(p, 1, Len(p) - 1)

\* d is the root, or a directory on both sides below such a directory: the
\* merge-walk runs on the pair
MatchedDir(d) ==
    \A q \in Prefixes(d) :
        /\ q \in Paths("old")
        /\ q \in Paths("new")
        /\ NodeAt(fs.old, q).type = "DT_DIR"
        /\ NodeAt(fs.new, q).type = "DT_DIR"

\* the names the merge-walk finds on one side only
OneSidedNames(side) ==
    {p \in Paths(side) : p \notin Paths(Other(side)) /\ MatchedDir(Parent(p))}
\* these and their descendants
OneSided(side) ==
    {p \in Paths(side) : \E q \in Prefixes(p) : q \in OneSidedNames(side)}
\* the names the merge-walk finds on both sides, with different kinds
KindChanged ==
    {p \in Paths("old") \cap Paths("new") :
        /\ MatchedDir(Parent(p))
        /\ NodeAt(fs.old, p).type /= NodeAt(fs.new, p).type}

RecordsFor(e) == {i \in DOMAIN records : records[i].fs = e}
ReportedOnceAs(e, how) ==
    /\ Cardinality(RecordsFor(e)) = 1
    /\ \A i \in RecordsFor(e) : records[i].how = how
Disposition(side) ==
    IF side = "old" THEN FSTATE_CHANGED_REMOVED ELSE FSTATE_CHANGED_ADDED

-----------------------------------------------------------------------------
(* The claims *)

\* C1: when no system call failed, the finished run holds exactly one
\* record, 'removed' without change flags, for every name found on the old
\* side only and for each of its descendants, and exactly one, 'added', for
\* every name found on the new side only and for each of its descendants.
C1_OneSidedReportedOnce ==
    (pc = "done" /\ ~io_failed) =>
        \A side \in Sides : \A p \in OneSided(side) :
            ReportedOnceAs(Entry(side, p), Disposition(side))

\* a finished run without failures in which a name only on the old side was
\* reported and a directory only on the new side was reported with a
\* descendant
C1_Witness ==
    /\ pc = "done"
    /\ ~io_failed
    /\ \E p \in OneSidedNames("old") :
          ReportedOnceAs(Entry("old", p), FSTATE_CHANGED_REMOVED)
    /\ \E p \in OneSided("new") :
          /\ p \notin OneSidedNames("new")
          /\ ReportedOnceAs(Entry("new", p), FSTATE_CHANGED_ADDED)

\* C2: a tree compared with an identical copy, no system call failing,
\* gives no record and exit status 0.
C2_IdenticalTreesNoRecords ==
    (pc = "done" /\ fs.old = fs.new /\ ~io_failed) =>
        (records = <<>> /\ retval /\ exitval = 0)

\* a finished comparison of a tree with its copy, the tree holding a link
\* and a directory that is not empty
C2_Witness ==
    /\ pc = "done"
    /\ fs.old = fs.new
    /\ ~io_failed
    /\ \E p \in Paths("old") : Len(p) >= 2
    /\ \E p \in Paths("old") : NodeAt(fs.old, p).type = "DT_LNK"
    /\ Cardinality(stb) = 2 * Cardinality(Paths("old"))

\* C3: whenever a system call failed during the run, the exit status is
\* not zero.
C3_FailureGivesNonZeroExit ==
    (pc \in {"done", "crashed"} /\ io_failed) => exitval /= 0

\* C4: a run in which no system call failed ends with exit status 0,
\* whatever it reported.
C4_NoFailureGivesZeroExit ==
    (pc = "done" /\ ~io_failed) => (retval /\ exitval = 0)

\* a finished run without failures that reported a removal, an addition
\* and a modified pair
C4_Witness ==
    /\ pc = "done"
    /\ ~io_failed
    /\ exitval = 0
    /\ \E i \in DOMAIN records : records[i].how = FSTATE_CHANGED_REMOVED
    /\ \E i \in DOMAIN records : records[i].how = FSTATE_CHANGED_ADDED
    /\ \E i \in DOMAIN records :
          records[i].how = FSTATE_CHANGED_MODE + FSTATE_CHANGED_REMOVED

\* C5: in the data check of a matched pair of regular files of equal size,
\* a failed open or read makes the pair's status false and leaves the
\* change flags as they were (no `data').
C5_ReadErrorIsNotDataChange ==
    [][(/\ At("compare_files", "data")
        /\ NodeOf(Top.old).type = "DT_REG"
        /\ Len(NodeOf(Top.old).data) = Len(NodeOf(Top.new).data)
        /\ faults' > faults)
       => (/\ stack'[Len(stack')].status = FALSE
           /\ stack'[Len(stack')].how = Top.how)]_vars

\* S_IRWXU | S_IRWXG | S_IRWXO
RwxBits == 448 + 56 + 7

\* C6: for a matched pair of one kind, `mode' is set exactly when the rwx
\* bits differ, and `critical' exactly when the set-user-id, set-group-id or
\* sticky bit or the owner or the group differs.
C6_ModeAndCriticalIndependent ==
    At("compare_files", "data") =>
        LET o == NodeOf(Top.old)
            n == NodeOf(Top.new)
            diff == BitXor(o.mode, n.mode)
        IN  /\ (BitAnd(Top.how, FSTATE_CHANGED_MODE) /= 0)
                  <=> (BitAnd(RwxBits, diff) /= 0)
            /\ (BitAnd(Top.how, FSTATE_CHANGED_CRIT) /= 0)
                  <=> (\/ BitAnd(S_ISUID + S_ISGID + S_ISVTX, diff) /= 0
                       \/ o.uid /= n.uid
                       \/ o.gid /= n.gid)

\* the build id range of a file, whatever the policy
LocatedRange(node) ==
    IF node.sec = NoSec THEN NULL
    ELSE elf_locate_build_id(node.data, node.sec[1].sh_offset,
                             node.sec[1].sh_size, node.sec[1].sh_addralign)
\* two files of one size with the same build id range and the same bytes
\* outside it
DifferOnlyInBuildId(o, n) ==
    /\ Len(o.data) = Len(n.data)
    /\ LocatedRange(o) /= NULL
    /\ LocatedRange(o) = LocatedRange(n)
    /\ \A i \in DOMAIN o.data :
          (i <= LocatedRange(o)[1].offset
             \/ i > LocatedRange(o)[1].offset + LocatedRange(o)[1].size)
          => o.data[i] = n.data[i]

\* C7: with the policy enabled, two files that differ only inside the
\* build id range they share get no `data', wherever the range lies; with
\* the policy disabled they get `data' when they differ.
C7_BuildIdRangeIgnored ==
    (/\ At("compare_files", "report")
     /\ NodeOf(Top.old).type = "DT_REG"
     /\ ~io_failed
     /\ DifferOnlyInBuildId(NodeOf(Top.old), NodeOf(Top.new)))
    => IF opt_ignore_buildid
       THEN BitAnd(Top.how, FSTATE_CHANGED_DATA) = 0
       ELSE (NodeOf(Top.old).data /= NodeOf(Top.new).data)
               => BitAnd(Top.how, FSTATE_CHANGED_DATA) /= 0

\* C8: when no system call failed, a name found on both sides with
\* different kinds has one `removed' record for the old entry and one
\* `added' record for the new entry, and every descendant of a new entry
\* that is a directory has one `added' record.
C8_KindChangeAddsSubtree ==
    (pc = "done" /\ ~io_failed) =>
        \A p \in KindChanged :
            /\ ReportedOnceAs(Entry("old", p), FSTATE_CHANGED_REMOVED)
            /\ \A q \in Paths("new") :
                  p \in Prefixes(q)
                  => ReportedOnceAs(Entry("new", q), FSTATE_CHANGED_ADDED)

\* C9: a directory that cannot be listed never ends the process; no call
\* of compare_directories is handed a snapshot that was not populated.
C9_UnreadableDirectoryDoesNotCrash ==
    /\ pc /= "crashed"
    /\ \A i \in DOMAIN stack :
          stack[i].fn = "compare_directories"
          => (stack[i].old /= NULL /\ stack[i].new /= NULL)

\* C10: the report step of a matched pair of one kind appends the two
\* records removed-old, added-new with the computed flags when the flags
\* are not empty, and nothing otherwise.
C10_RecordsComeInPairs ==
    [][At("compare_files", "report")
       => records' =
            IF Top.how /= 0
            THEN records \o
                 <<[how |-> BitOr(Top.how, FSTATE_CHANGED_REMOVED), fs |-> Top.old],
                   [how |-> BitOr(Top.how, FSTATE_CHANGED_ADDED), fs |-> Top.new]>>
            ELSE records]_vars

\* C11: whatever fails, no entry has lstat issued more than once nor
\* readlink issued more than once, however often fstate_stat and
\* fstate_readlink are called on it by the comparison and by the report.
C11_QueriesIssuedAtMostOnce ==
    /\ \A e \in DOMAIN lstat_calls : Count(lstat_calls, e) <= 1
    /\ \A e \in DOMAIN readlink_calls : Count(readlink_calls, e) <= 1

\* what the section of a regular file declares, and where its payload puts
\* the build id: behind the reference name and its NUL, at the next
\* multiple of the alignment
IsPowerOfTwo(n) == \E i \in 0..30 : n = 2 ^ i
NameEnd(node) ==
    1 + FirstNul(SubSeq(node.data, node.sec[1].sh_offset + 1,
                        node.sec[1].sh_offset + node.sec[1].sh_size))
RoundedUp(n, align) == ((n + align - 1) \div align) * align
BuildIdValid(node) ==
    LET size == node.sec[1].sh_size
        align == node.sec[1].sh_addralign
    IN  /\ size <= 2048
        /\ IsPowerOfTwo(align)
        /\ RoundedUp(NameEnd(node), align) < size
        /\ size - RoundedUp(NameEnd(node), align) \in {4, 8}

\* C12: when compare_regular_files has looked for the build id of a file
\* with a .gnu_debuglink section, a range is located only if the size is
\* at most 2048, the alignment is a power of two, the padded offset k lies
\* inside the section and size - k is 4 or 8; the range is then
\* [sh_offset + k, sh_offset + size) and begins behind the reference name
\* and its NUL.
C12_BuildIdRangeValidated ==
    (/\ At("compare_files", "report")
     /\ NodeOf(Top.old).type = "DT_REG"
     /\ opt_ignore_buildid)
    => \A e \in {Top.old, Top.new} :
          LET node == NodeOf(e)
              range == elf_identify_debug_section(node)
          IN  (node.sec /= NoSec /\ range /= NULL)
              => /\ BuildIdValid(node)
                 /\ range[1].offset = node.sec[1].sh_offset
                        + RoundedUp(NameEnd(node), node.sec[1].sh_addralign)
                 /\ range[1].offset + range[1].size
                        = node.sec[1].sh_offset + node.sec[1].sh_size
                 /\ range[1].offset >= node.sec[1].sh_offset + NameEnd(node)

====
